---------------------------- MODULE Spec2Model ----------------------------
(***************************************************************************)
(* Earliest-arrival reachability search of jetlag.py over a GTFS feed.     *)
(*                                                                         *)
(* Times are whole seconds since midnight of the service day (timedelta),  *)
(* stop coordinates are metres on a line (a projected CRS restricted to    *)
(* one axis, so that shapely.distance is |x1 - x2| and obeys the triangle  *)
(* inequality).  Strings that the program takes apart (route names, tested *)
(* with startswith("Walk ")) are sequences of their space separated words. *)
(***************************************************************************)
EXTENDS Integers, Sequences, FiniteSets, TLC

VARIABLES
    env,            \* the inputs: configuration constants and the loaded feed
    queue,          \* the heap list of RouteSegmentCollection
    visited_stops,  \* stop_id -> RouteSegmentCollection that finalized it
    visited_trips,  \* set of boarded trip ids
    added_stops,    \* stop_id -> arrival offset last recorded by push_to_queue
    pc,             \* "loop" | "done" | "crashed" (uncaught KeyError)
    generated,      \* history: every successor built by append in the loop
    popped,         \* history: the collections returned by heappop, in order
    pushlog,        \* history: the calls of push_to_queue, in order
    popups,         \* the popup of every visited stop, once the map is drawn
    recv, seg, ret  \* receiver, argument and result of a direct append_ call

vars == <<env, queue, visited_stops, visited_trips, added_stops, pc,
          generated, popped, pushlog, popups, recv, seg, ret>>

-----------------------------------------------------------------------------
(* Bounds of the model *)

\* number of trips (rows of trips.txt) in a generated feed
MaxTrips == 2

\* offsets 0..MaxTd of the segments handed to append directly
MaxTd == 1

\* longest receiver append is called on directly
MaxSegments == 2

-----------------------------------------------------------------------------
(* Small helpers *)

Range(s) == {s[i] : i \in DOMAIN s}

Abs(x) == IF x < 0 THEN -x ELSE x

Last(s) == s[Len(s)]

RECURSIVE Concat(_)
Concat(ss) == IF ss = <<>> THEN <<>> ELSE Head(ss) \o Concat(Tail(ss))

\* the empty dict
EmptyDict == [k \in {} |-> 0]

\* d[k] = v
DictSet(d, k, v) == [x \in (DOMAIN d) \cup {k} |-> IF x = k THEN v ELSE d[x]]

-----------------------------------------------------------------------------
(* RouteSegmentCollection *)

STARTING_ROUTE_NAME == <<"__start__">>

\* f'Wait at stop'
WAIT_ROUTE_NAME == <<"Wait", "at", "stop">>

\* f"Walk {round(distance_to_stop)} meters"; distances of the model are
\* whole metres, on which round() changes nothing
WalkRouteName(distance_to_stop) == <<"Walk", ToString(distance_to_stop), "meters">>

\* route_name.startswith("Walk "): the first word is Walk and a space follows
StartsWithWalk(route_name) == Len(route_name) >= 2 /\ route_name[1] = "Walk"

RouteSegment(departure_td, arrival_td, route_name, arrival_stop_id) ==
    [departure_td |-> departure_td, arrival_td |-> arrival_td,
     route_name |-> route_name, arrival_stop_id |-> arrival_stop_id]

\* mutant: append that refuses an empty receiver and a departure before the
\* receiver's last arrival, handing the receiver back
append_validating(trips, trip) ==
    IF trips = <<>> THEN trips
    ELSE IF trip.departure_td < trips[Len(trips)].arrival_td THEN trips
    ELSE trips \o <<trip>>

\* a collection is the tuple self.trips (self.day is the same for all)
append_(trips, trip) == trips \o <<trip>>

append(trips, departure_td, arrival_td, route_name, arrival_stop_id) ==
    append_(trips, RouteSegment(departure_td, arrival_td, route_name, arrival_stop_id))

get_last_trip(trips) == trips[Len(trips)]

starting_collection(start_td, start_stop_id) ==
    append(<<>>, start_td, start_td, STARTING_ROUTE_NAME, start_stop_id)

\* __get_cmp_key: (arrival_td of the last segment, number of segments)
get_cmp_key(trips) == <<get_last_trip(trips).arrival_td, Len(trips)>>

\* tuple comparison of the keys
Lt(a, b) ==
    LET ka == get_cmp_key(a)
        kb == get_cmp_key(b)
    IN  ka[1] < kb[1] \/ (ka[1] = kb[1] /\ ka[2] < kb[2])

\* mutant: the waiting segment is put at the stop the next segment arrives at
WaitSegment_at_next_stop(a, b) ==
    RouteSegment(a.arrival_td, b.departure_td, WAIT_ROUTE_NAME, b.arrival_stop_id)

\* line 160: the segment that fills the gap between a and b
WaitSegment(a, b) ==
    RouteSegment(a.arrival_td, b.departure_td, WAIT_ROUTE_NAME, a.arrival_stop_id)

\* lines 157-161: the loop over itertools.pairwise(self.trips), from the
\* pair (trips[i - 1], trips[i]) on
RECURSIVE FillWaiting(_, _)
FillWaiting(trips, i) ==
    IF i > Len(trips) THEN <<>>
    ELSE (IF trips[i - 1].arrival_td # trips[i].departure_td
          THEN <<WaitSegment(trips[i - 1], trips[i])>>
          ELSE <<>>)
         \o <<trips[i]>> \o FillWaiting(trips, i + 1)

\* lines 155-162; trips[0] of an empty collection raises IndexError, and no
\* collection of the search is empty
populate_waiting(trips) == <<trips[1]>> \o FillWaiting(trips, 2)

-----------------------------------------------------------------------------
(* heapq on the list `queue`, ordered by RouteSegmentCollection.__lt__.     *)
(* Index i of the sequence is position i - 1 of the Python list, so the    *)
(* parent of i is i \div 2 and its children are 2i and 2i + 1.             *)

\* heapq._siftdown(heap, 0, pos) with newitem held aside
RECURSIVE siftdown(_, _, _)
siftdown(heap, newitem, pos) ==
    IF pos > 1 /\ Lt(newitem, heap[pos \div 2])
    THEN siftdown([heap EXCEPT ![pos] = heap[pos \div 2]], newitem, pos \div 2)
    ELSE [heap EXCEPT ![pos] = newitem]

\* the loop of heapq._siftup: bubble the smaller child up until a leaf
RECURSIVE siftup(_, _, _)
siftup(heap, newitem, pos) ==
    LET childpos == 2 * pos
        rightpos == childpos + 1
        c == IF rightpos <= Len(heap) /\ ~Lt(heap[childpos], heap[rightpos])
             THEN rightpos ELSE childpos
    IN  IF childpos <= Len(heap)
        THEN siftup([heap EXCEPT ![pos] = heap[c]], newitem, c)
        ELSE siftdown([heap EXCEPT ![pos] = newitem], newitem, pos)

\* mutant: the item is appended to the list and not sifted
heappush_unsifted(heap, item) == Append(heap, item)

heappush(heap, item) == siftdown(Append(heap, item), item, Len(heap) + 1)

\* heappop: the item returned ...
heappop_item(heap) == heap[1]

\* ... and the list it leaves
heappop_rest(heap) ==
    LET lastelt == heap[Len(heap)]
        rest == SubSeq(heap, 1, Len(heap) - 1)
    IN  IF rest = <<>> THEN rest ELSE siftup(rest, lastelt, 1)

-----------------------------------------------------------------------------
(* Schedule access.  env.trips is feed.trips joined with feed.routes, each  *)
(* trip carrying its rows of feed.stop_times in file order; env.stops is    *)
(* feed.stops in file order.  Every trip runs on the service day.           *)

end_timedelta(e) == e.START_TD + e.HIDE_DURATION

\* pd.merge(feed.trips, feed.stop_times) restricted to one trip
MergedRows(trip) ==
    [j \in 1..Len(trip.stop_times) |->
        [trip_id |-> trip.trip_id, route_id |-> trip.route_id,
         trip_headsign |-> trip.trip_headsign,
         stop_id |-> trip.stop_times[j].stop_id,
         stop_sequence |-> trip.stop_times[j].stop_sequence,
         arrival_time |-> trip.stop_times[j].arrival_time,
         departure_time |-> trip.stop_times[j].departure_time]]

\* merged.groupby(["stop_id"], sort=False).get_group((stop_id,)): the merged
\* rows of the stop, trips in file order
StopGroup(e, stop_id) ==
    LET AtStop(r) == r.stop_id = stop_id
    IN  Concat([i \in 1..Len(e.trips) |-> SelectSeq(MergedRows(e.trips[i]), AtStop)])

\* get_group raises KeyError for a stop that no row of stop_times names
HasStopGroup(e, stop_id) == StopGroup(e, stop_id) # <<>>

\* one step of a stable sort on departure_time: r goes after every row that
\* does not depart later
RECURSIVE InsertByDeparture(_, _)
InsertByDeparture(sorted, r) ==
    IF sorted = <<>> THEN <<r>>
    ELSE IF Last(sorted).departure_time <= r.departure_time THEN Append(sorted, r)
    ELSE Append(InsertByDeparture(SubSeq(sorted, 1, Len(sorted) - 1), r), Last(sorted))

RECURSIVE SortByDeparture(_)
SortByDeparture(rows) ==
    IF rows = <<>> THEN <<>>
    ELSE InsertByDeparture(SortByDeparture(SubSeq(rows, 1, Len(rows) - 1)), Last(rows))

\* GTFS.build_stop_timetable / get_stop_timetable
get_stop_timetable(e, stop_id) == SortByDeparture(StopGroup(e, stop_id))

\* mutant: the lower bound on departure_time is dropped
df_time_bound_upper_only(df, lower, upper) ==
    LET Keep(r) == upper # 0 => r.arrival_time <= upper
    IN  SelectSeq(df, Keep)

\* `if lower:` and `if upper:` skip a bound that is timedelta(0)
df_time_bound(df, lower, upper) ==
    LET Keep(r) == /\ (lower # 0 => r.departure_time >= lower)
                   /\ (upper # 0 => r.arrival_time <= upper)
    IN  SelectSeq(df, Keep)

trips_between_for_stop(e, stop_id, t1, t2) ==
    df_time_bound(get_stop_timetable(e, stop_id), t1, t2)

\* mutant: keep='last', the last row of every route is kept
RECURSIVE drop_duplicates_keep_last(_)
drop_duplicates_keep_last(rows) ==
    IF rows = <<>> THEN <<>>
    ELSE LET r == Head(rows)
             rest == drop_duplicates_keep_last(Tail(rows))
         IN  IF \E i \in DOMAIN rest : rest[i].route_id = r.route_id
             THEN rest ELSE <<r>> \o rest

\* stop_timetable.drop_duplicates('route_id', keep='first')
RECURSIVE drop_duplicates(_)
drop_duplicates(rows) ==
    IF rows = <<>> THEN <<>>
    ELSE LET init == drop_duplicates(SubSeq(rows, 1, Len(rows) - 1))
             r == Last(rows)
         IN  IF \E i \in DOMAIN init : init[i].route_id = r.route_id
             THEN init ELSE Append(init, r)

TripById(e, trip_id) == CHOOSE t \in Range(e.trips) : t.trip_id = trip_id

\* gtfs.trip_route_types[trip_id]
trip_route_types(e, trip_id) == TripById(e, trip_id).route_type

\* mutant: >= for >, the boarding stop itself counts as a future stop
get_stops_on_trip_from(e, trip_id, stop_seq) ==
    LET From(r) == r.stop_sequence >= stop_seq
    IN  SelectSeq(TripById(e, trip_id).stop_times, From)

\* st[st["stop_sequence"] > int(stop_seq)] of the trip's stop_times
get_future_stops_on_trip(e, trip_id, stop_seq) ==
    LET After(r) == r.stop_sequence > stop_seq
    IN  SelectSeq(TripById(e, trip_id).stop_times, After)

-----------------------------------------------------------------------------
(* Spatial access *)

StopX(e, stop_id) == (CHOOSE s \in Range(e.stops) : s.stop_id = stop_id).x

\* shapely.distance of the two stop geometries
distance(e, a, b) == Abs(StopX(e, a) - StopX(e, b))

\* gtfs.get_stops_in_area(CoordsUtil.buffer_points(walking_distance, stop)):
\* the rows of feed.stops within the disc, in file order
get_stops_in_area(e, stop_id, walking_distance) ==
    LET Inside(s) == Abs(s.x - StopX(e, stop_id)) <= walking_distance
    IN  SelectSeq(e.stops, Inside)

-----------------------------------------------------------------------------
(* The search state as one value, so that the loop body is a function of   *)
(* the inputs and the state.                                               *)

\* lines 219-228: the module-level initialisation
InitialState(e) ==
    [queue |-> <<starting_collection(e.START_TD, e.START_STOP)>>,
     visited_stops |-> EmptyDict,
     visited_trips |-> {},
     added_stops |-> EmptyDict,
     pc |-> "loop",
     generated |-> {},
     popped |-> <<>>,
     pushlog |-> <<>>]

\* mutant: push_to_queue never returns early
PushSkipped_never(added, stop_id, arrival_time) == FALSE

\* mutant: push_to_queue also returns early on an equal arrival time
PushSkipped_or_equal(added, stop_id, arrival_time) ==
    stop_id \in DOMAIN added /\ arrival_time >= added[stop_id]

\* mutant: push_to_queue returns early on an earlier arrival time instead
PushSkipped_when_earlier(added, stop_id, arrival_time) ==
    stop_id \in DOMAIN added /\ arrival_time < added[stop_id]

\* push_to_queue's early return: the stop was added with an earlier time
PushSkipped(added, stop_id, arrival_time) ==
    stop_id \in DOMAIN added /\ arrival_time > added[stop_id]

push_to_queue(st, route_collection) ==
    LET stop_id == get_last_trip(route_collection).arrival_stop_id
        arrival_time == get_last_trip(route_collection).arrival_td
    IN  IF PushSkipped(st.added_stops, stop_id, arrival_time) THEN st
        ELSE [st EXCEPT !.queue = heappush(@, route_collection),
                        !.added_stops = DictSet(@, stop_id, arrival_time)]

\* one call of push_to_queue as the history keeps it: the collection,
\* added_stops before and after the call, and whether the queue grew
Logged(before, after, route_collection) ==
    [after EXCEPT !.pushlog =
        Append(@, [rc |-> route_collection,
                   added_before |-> before.added_stops,
                   added_after |-> after.added_stops,
                   inserted |-> Len(after.queue) > Len(before.queue)])]

\* a successor built at line 270 or 289, remembered with the trip it rides
\* (0 for a walk) before it is handed to push_to_queue
Generate(st, route_collection, via) ==
    Logged(st, push_to_queue([st EXCEPT !.generated = @ \cup {[rc |-> route_collection,
                                                                via |-> via]}],
                             route_collection),
           route_collection)

\* `if arrival_time > end_timedelta: continue` of the fan-out
FutureStopSkipped(e, arrival_time) == arrival_time > end_timedelta(e)

\* lines 265-270: one successor per later stop of the boarded trip
RECURSIVE FanOut(_, _, _, _, _)
FanOut(e, st, route_collection, row, future_stops) ==
    IF future_stops = <<>> THEN st
    ELSE LET future_stop == Head(future_stops)
             next == IF FutureStopSkipped(e, future_stop.arrival_time) THEN st
                     ELSE Generate(st,
                                   append(route_collection, row.departure_time,
                                          future_stop.arrival_time, row.trip_headsign,
                                          future_stop.stop_id),
                                   row.trip_id)
         IN  FanOut(e, next, route_collection, row, Tail(future_stops))

\* mutant: the check against ALLOWED_TRAVEL_MODES is missing
CandidateSkipped_visited_only(e, st, row) == row.trip_id \in st.visited_trips

\* mutant: visited_trips is not consulted
CandidateSkipped_mode_only(e, st, row) ==
    trip_route_types(e, row.trip_id) \notin e.ALLOWED_TRAVEL_MODES

\* lines 258-262: the candidate is not boarded
CandidateSkipped(e, st, row) ==
    \/ trip_route_types(e, row.trip_id) \notin e.ALLOWED_TRAVEL_MODES
    \/ row.trip_id \in st.visited_trips

\* lines 253-270: the loop over first_available_routes
RECURSIVE TransitExpansion(_, _, _, _)
TransitExpansion(e, st, route_collection, rows) ==
    IF rows = <<>> THEN st
    ELSE LET row == Head(rows)
             next == IF CandidateSkipped(e, st, row) THEN st
                     ELSE FanOut(e, [st EXCEPT !.visited_trips = @ \cup {row.trip_id}],
                                 route_collection, row,
                                 get_future_stops_on_trip(e, row.trip_id, row.stop_sequence))
         IN  TransitExpansion(e, next, route_collection, Tail(rows))

\* lines 273 and 277: no walking after a walk, none with walking disabled
WalkingSkipped(e, route_collection) ==
    \/ StartsWithWalk(get_last_trip(route_collection).route_name)
    \/ e.WALKING_SPEED <= 0

\* td + distance / WALKING_SPEED seconds (the feeds of the model keep the
\* quotient whole)
WalkArrival(e, td, distance_to_stop) == td + distance_to_stop \div e.WALKING_SPEED

\* lines 285-289
RECURSIVE WalkTo(_, _, _, _)
WalkTo(e, st, route_collection, rows) ==
    IF rows = <<>> THEN st
    ELSE LET td == get_last_trip(route_collection).arrival_td
             stop_id == get_last_trip(route_collection).arrival_stop_id
             distance_to_stop == distance(e, stop_id, Head(rows).stop_id)
             next == Generate(st,
                              append(route_collection, td,
                                     WalkArrival(e, td, distance_to_stop),
                                     WalkRouteName(distance_to_stop),
                                     Head(rows).stop_id),
                              0)
         IN  WalkTo(e, next, route_collection, Tail(rows))

\* lines 279-289; timedelta.seconds is the offset within its day
WalkingExpansion(e, st, route_collection) ==
    LET td == get_last_trip(route_collection).arrival_td
        stop_id == get_last_trip(route_collection).arrival_stop_id
        remaining_time == end_timedelta(e) - td
        walking_distance == e.WALKING_SPEED * (remaining_time % 86400)
    IN  WalkTo(e, st, route_collection, get_stops_in_area(e, stop_id, walking_distance))

\* mutant: the visited_stops check is missing
AlreadyVisited_never(st, stop_id) == FALSE

\* line 245
AlreadyVisited(st, stop_id) == stop_id \in DOMAIN st.visited_stops

\* mutant: the horizon check on the popped collection is missing
BeyondHorizon_never(e, td) == FALSE

\* line 247
BeyondHorizon(e, td) == td > end_timedelta(e)

\* lines 250-251: the first row of every route in the time-bounded timetable
first_available_routes(e, stop_id, td) ==
    drop_duplicates(trips_between_for_stop(e, stop_id, td, end_timedelta(e)))

\* lines 250-289 for a collection that has just been finalized
Expand(e, st, route_collection) ==
    LET td == get_last_trip(route_collection).arrival_td
        stop_id == get_last_trip(route_collection).arrival_stop_id
    IN  IF ~HasStopGroup(e, stop_id) THEN [st EXCEPT !.pc = "crashed"]
        ELSE LET st1 == TransitExpansion(e, st, route_collection,
                                         first_available_routes(e, stop_id, td))
             IN  IF WalkingSkipped(e, route_collection) THEN st1
                 ELSE WalkingExpansion(e, st1, route_collection)

\* lines 243-289: one iteration of `while len(queue)`
LoopBody(e, st) ==
    LET route_collection == heappop_item(st.queue)
        td == get_last_trip(route_collection).arrival_td
        stop_id == get_last_trip(route_collection).arrival_stop_id
        st0 == [st EXCEPT !.queue = heappop_rest(@),
                          !.popped = Append(@, route_collection)]
    IN  IF AlreadyVisited(st0, stop_id) THEN st0
        ELSE IF BeyondHorizon(e, td) THEN st0
        ELSE Expand(e, [st0 EXCEPT !.visited_stops = DictSet(@, stop_id, route_collection)],
                    route_collection)

\* the whole `while len(queue)` loop
RECURSIVE RunLoop(_, _)
RunLoop(e, st) ==
    IF st.pc # "loop" THEN st
    ELSE IF st.queue = <<>> THEN [st EXCEPT !.pc = "done"]
    ELSE RunLoop(e, LoopBody(e, st))

-----------------------------------------------------------------------------
(* The inputs the model is run on *)

Stop(stop_id, x) == [stop_id |-> stop_id, x |-> x]

StopTime(stop_id, stop_sequence, arrival_time, departure_time) ==
    [stop_id |-> stop_id, stop_sequence |-> stop_sequence,
     arrival_time |-> arrival_time, departure_time |-> departure_time]

\* stops.txt: A, B and C within walking reach of each other, D far away
Stops == <<Stop("A", 0), Stop("B", 4), Stop("C", 8), Stop("D", 400)>>

Routes == {"R1", "R2"}

RouteTypeOf(route_id) == IF route_id = "R1" THEN "LIGHT_RAIL" ELSE "BUS"

RouteTypeAll == {"LIGHT_RAIL", "BUS"}

\* stop patterns as <<stop, arrival, departure>> relative to the trip's start
Patterns ==
    {<< <<"A", 0, 0>>, <<"B", 2, 3>>, <<"C", 5, 5>> >>,
     << <<"B", 0, 0>>, <<"D", 1, 1>>, <<"A", 2, 2>>, <<"C", 3, 4>> >>,
     << <<"B", 0, 0>>, <<"C", 1, 1>>, <<"A", 2, 2>>, <<"D", 3, 4>> >>,
     << <<"A", 1, 1>>, <<"D", 4, 4>> >>,
     << <<"D", 4, 4>>, <<"B", 6, 6>> >>}

StartOffsets == {0, 2}

HeadsignOf(route_id, pattern) ==
    IF route_id = "R1" THEN <<"Red", "Line">>
    ELSE IF Len(pattern) = 2 THEN <<"Walk", "St">>
    ELSE <<"Blue", "Line">>

\* a trip of trips.txt with its stop_times.txt rows, not yet numbered
TripChoice(route_id, pattern, t0) ==
    [route_id |-> route_id, route_type |-> RouteTypeOf(route_id),
     trip_headsign |-> HeadsignOf(route_id, pattern),
     stop_times |-> [j \in 1..Len(pattern) |->
                        StopTime(pattern[j][1], j, t0 + pattern[j][2], t0 + pattern[j][3])]]

TripChoices == {TripChoice(r, p, t0) : r \in Routes, p \in Patterns, t0 \in StartOffsets}

\* trip_id is the row number in trips.txt
Numbered(choices) ==
    [i \in 1..Len(choices) |->
        [trip_id |-> i, route_id |-> choices[i].route_id,
         route_type |-> choices[i].route_type,
         trip_headsign |-> choices[i].trip_headsign,
         stop_times |-> choices[i].stop_times]]

Feeds == UNION {{Numbered(c) : c \in [1..n -> TripChoices]} : n \in 0..MaxTrips}

Config(start_td, hide_duration, walking_speed, allowed) ==
    [START_STOP |-> "A", START_TD |-> start_td, HIDE_DURATION |-> hide_duration,
     WALKING_SPEED |-> walking_speed, ALLOWED_TRAVEL_MODES |-> allowed]

\* configurations: walking on, walking off, rail only, a late start with a
\* short budget, and a budget that ends before the start
Configs ==
    {Config(0, 8, 2, RouteTypeAll),
     Config(0, 8, 0, RouteTypeAll),
     Config(0, 8, 2, {"LIGHT_RAIL"}),
     Config(1, 5, 1, RouteTypeAll),
     Config(3, -1, 2, RouteTypeAll)}

Env(config, stops, trips) ==
    [START_STOP |-> config.START_STOP, START_TD |-> config.START_TD,
     HIDE_DURATION |-> config.HIDE_DURATION, WALKING_SPEED |-> config.WALKING_SPEED,
     ALLOWED_TRAVEL_MODES |-> config.ALLOWED_TRAVEL_MODES,
     stops |-> stops, trips |-> trips]

\* scenario 1: one route A(0) -> B(10) -> C(20), horizon 15, stops too far
\* apart to walk
Scenario1 ==
    Env(Config(0, 15, 1, RouteTypeAll),
        <<Stop("A", 0), Stop("B", 1000), Stop("C", 2000)>>,
        Numbered(<<[route_id |-> "R1", route_type |-> "LIGHT_RAIL",
                    trip_headsign |-> <<"Red", "Line">>,
                    stop_times |-> <<StopTime("A", 1, 0, 0), StopTime("B", 2, 10, 10),
                                     StopTime("C", 3, 20, 20)>>]>>))

\* scenario 2: A and D 50 m apart, walking speed 1, no transit service,
\* horizon 100
Scenario2 ==
    Env(Config(0, 100, 1, RouteTypeAll), <<Stop("A", 0), Stop("D", 50)>>, <<>>)

\* scenario 3: two routes leave A at 0 and reach B at 5 and at 8; the order of
\* the rows of trips.txt decides which route is expanded first
FastTrip ==
    [route_id |-> "R1", route_type |-> "LIGHT_RAIL", trip_headsign |-> <<"Red", "Line">>,
     stop_times |-> <<StopTime("A", 1, 0, 0), StopTime("B", 2, 5, 5)>>]

SlowTrip ==
    [route_id |-> "R2", route_type |-> "BUS", trip_headsign |-> <<"Blue", "Line">>,
     stop_times |-> <<StopTime("A", 1, 0, 0), StopTime("B", 2, 8, 8)>>]

Scenario3(trips) ==
    Env(Config(0, 15, 1, RouteTypeAll), <<Stop("A", 0), Stop("B", 1000)>>, Numbered(trips))

Scenario3FastFirst == Scenario3(<<FastTrip, SlowTrip>>)

Scenario3SlowFirst == Scenario3(<<SlowTrip, FastTrip>>)

Envs ==
    {Env(c, Stops, f) : c \in Configs, f \in Feeds}
        \cup {Scenario1, Scenario2, Scenario3FastFirst, Scenario3SlowFirst}

-----------------------------------------------------------------------------
(* The search as a state machine *)

State ==
    [queue |-> queue, visited_stops |-> visited_stops, visited_trips |-> visited_trips,
     added_stops |-> added_stops, pc |-> pc, generated |-> generated, popped |-> popped,
     pushlog |-> pushlog]

Becomes(st) ==
    /\ queue' = st.queue
    /\ visited_stops' = st.visited_stops
    /\ visited_trips' = st.visited_trips
    /\ added_stops' = st.added_stops
    /\ pc' = st.pc
    /\ generated' = st.generated
    /\ popped' = st.popped
    /\ pushlog' = st.pushlog

\* starting_collection is the program's one call of append on an empty receiver
Init ==
    /\ env \in Envs
    /\ queue = InitialState(env).queue
    /\ visited_stops = InitialState(env).visited_stops
    /\ visited_trips = InitialState(env).visited_trips
    /\ added_stops = InitialState(env).added_stops
    /\ pc = InitialState(env).pc
    /\ generated = InitialState(env).generated
    /\ popped = InitialState(env).popped
    /\ pushlog = InitialState(env).pushlog
    /\ popups = EmptyDict
    /\ recv = <<>>
    /\ seg = RouteSegment(env.START_TD, env.START_TD, STARTING_ROUTE_NAME, env.START_STOP)
    /\ ret = starting_collection(env.START_TD, env.START_STOP)

\* one iteration of the while loop
MainLoop ==
    /\ pc = "loop"
    /\ queue # <<>>
    /\ Becomes(LoopBody(env, State))
    /\ UNCHANGED <<env, popups, recv, seg, ret>>

\* `while len(queue)` is false
LoopExit ==
    /\ pc = "loop"
    /\ queue = <<>>
    /\ pc' = "done"
    /\ UNCHANGED <<env, queue, visited_stops, visited_trips, added_stops,
                   generated, popped, pushlog, popups, recv, seg, ret>>

\* lines 299-324: one circle per visited stop, its popup the collection with
\* the waits filled in
DrawMap ==
    /\ pc = "done"
    /\ pc' = "drawn"
    /\ popups' = [stop_id \in DOMAIN visited_stops |->
                      populate_waiting(visited_stops[stop_id])]
    /\ UNCHANGED <<env, queue, visited_stops, visited_trips, added_stops,
                   generated, popped, pushlog, recv, seg, ret>>

Next == MainLoop \/ LoopExit \/ DrawMap

Spec == Init /\ [][Next]_vars

-----------------------------------------------------------------------------
(* RouteSegmentCollection.append on its own: a chain of calls, the first   *)
(* on the empty collection cls(day) as in starting_collection, each later  *)
(* one on the collection the call before returned.                         *)

Segments ==
    {RouteSegment(d, a, n, "A") :
        d \in 0..MaxTd, a \in 0..MaxTd, n \in {STARTING_ROUTE_NAME, <<"Red", "Line">>}}

AppendInit ==
    /\ env = Scenario1
    /\ queue = <<>>
    /\ visited_stops = EmptyDict
    /\ visited_trips = {}
    /\ added_stops = EmptyDict
    /\ pc = "append"
    /\ generated = {}
    /\ popped = <<>>
    /\ pushlog = <<>>
    /\ popups = EmptyDict
    /\ recv = <<>>
    /\ seg \in Segments
    /\ ret = append_(recv, seg)

AppendCall ==
    /\ pc = "append"
    /\ Len(ret) <= MaxSegments
    /\ recv' = ret
    /\ seg' \in Segments
    /\ ret' = append_(recv', seg')
    /\ UNCHANGED <<env, queue, visited_stops, visited_trips, added_stops, pc,
                   generated, popped, pushlog, popups>>

AppendSpec == AppendInit /\ [][AppendCall]_vars

-----------------------------------------------------------------------------
(* Vocabulary of the properties *)

Finalized == visited_stops

ArrivalOf(path) == get_last_trip(path).arrival_td

StopOf(path) == get_last_trip(path).arrival_stop_id

StopIds(e) == {e.stops[i].stop_id : i \in DOMAIN e.stops}

Min(S) == CHOOSE x \in S : \A y \in S : x <= y

\* The edge model of the search, stated on the feed alone: the events
\* <<stop, time>> at which a traveller can be at a stop within the horizon.
\* One round adds every ride (board a visit of an allowed trip that departs
\* no earlier than the event, alight at a later visit of the same trip) and
\* every walk (straight line, at the walking speed).
RideEvents(e, R) ==
    {<<t.stop_times[j].stop_id, t.stop_times[j].arrival_time>> :
        <<t, j>> \in {<<t, j>> \in Range(e.trips) \X (1..4) :
            /\ j \in DOMAIN t.stop_times
            /\ t.route_type \in e.ALLOWED_TRAVEL_MODES
            /\ t.stop_times[j].arrival_time <= end_timedelta(e)
            /\ \E i \in DOMAIN t.stop_times : \E ev \in R :
                  /\ t.stop_times[i].stop_sequence < t.stop_times[j].stop_sequence
                  /\ t.stop_times[i].stop_id = ev[1]
                  /\ t.stop_times[i].departure_time >= ev[2]}}

WalkEvents(e, R) ==
    IF e.WALKING_SPEED <= 0 THEN {}
    ELSE {<<s, ev[2] + Abs(StopX(e, s) - StopX(e, ev[1])) \div e.WALKING_SPEED>> :
            <<s, ev>> \in {<<s, ev>> \in StopIds(e) \X R :
                ev[2] * e.WALKING_SPEED + Abs(StopX(e, s) - StopX(e, ev[1]))
                    <= end_timedelta(e) * e.WALKING_SPEED}}

RECURSIVE Closure(_, _)
Closure(e, R) ==
    LET more == R \cup RideEvents(e, R) \cup WalkEvents(e, R)
    IN  IF more = R THEN R ELSE Closure(e, more)

Events(e) ==
    Closure(e, IF e.START_TD <= end_timedelta(e) THEN {<<e.START_STOP, e.START_TD>>} ELSE {})

Reachable(e) == {ev[1] : ev \in Events(e)}

EarliestArrival(e, stop_id) == Min({ev[2] : ev \in {x \in Events(e) : x[1] = stop_id}})

-----------------------------------------------------------------------------
(* Properties *)

\* C1: every Path in Finalized arrives at or before the horizon, and a
\* popped Path that arrives after the horizon is not the Path of any stop.
C1_FinalizedWithinHorizon ==
    /\ \A s \in DOMAIN Finalized : ArrivalOf(Finalized[s]) <= end_timedelta(env)
    /\ \A i \in DOMAIN popped :
          ArrivalOf(popped[i]) > end_timedelta(env)
              => \A s \in DOMAIN Finalized : Finalized[s] # popped[i]

\* a Path beyond the horizon has been popped and the loop has gone on to end
C1_Witness ==
    /\ pc = "done"
    /\ \E i \in DOMAIN popped : ArrivalOf(popped[i]) > end_timedelta(env)

\* C2: an entry of Finalized, once set, is there with the same Path after
\* every later step.
C2_WriteOnce ==
    [][\A s \in DOMAIN Finalized :
          s \in DOMAIN Finalized' /\ Finalized'[s] = Finalized[s]]_vars

\* a second Path for a finalized stop, within the horizon, has been popped
C2_Witness ==
    \E i \in DOMAIN popped :
        /\ StopOf(popped[i]) \in DOMAIN Finalized
        /\ Finalized[StopOf(popped[i])] # popped[i]
        /\ ArrivalOf(popped[i]) <= end_timedelta(env)

\* C3: at the end of the search the arrival offset recorded for a stop is
\* the earliest arrival at that stop in the edge model.
C3_EarliestArrival ==
    pc = "done" =>
        \A s \in DOMAIN Finalized :
            ArrivalOf(Finalized[s]) = EarliestArrival(env, s)

\* C4: at the end of the search every stop reachable in the edge model is in
\* Finalized.
C4_AllReachableFinalized ==
    pc = "done" => \A s \in Reachable(env) : s \in DOMAIN Finalized

\* C5 (as claimed): append on an empty receiver, or with a departure earlier
\* than the receiver's last arrival, returns no Path ending with the segment.
C5_AppendFails ==
    (recv = <<>> \/ seg.departure_td < Last(recv).arrival_td)
        => ~(Len(ret) = Len(recv) + 1 /\ Last(ret) = seg)

\* C5 (amended): append never fails; whatever the receiver and the segment,
\* it returns the receiver's segments followed by the new segment.
C5_AppendAlwaysExtends ==
    /\ Len(ret) = Len(recv) + 1
    /\ SubSeq(ret, 1, Len(recv)) = recv
    /\ Last(ret) = seg

\* a segment that departs before the receiver's last arrival was appended
C5_Witness ==
    /\ recv # <<>>
    /\ seg.departure_td < Last(recv).arrival_td
    /\ Last(ret) = seg

PathsInPlay == Range(queue) \cup {Finalized[s] : s \in DOMAIN Finalized}

\* C6: every Path in the frontier or in Finalized is non-empty, begins with
\* the start segment at the origin stop and start time, and each segment
\* departs no earlier than the segment before it arrives.
C6_PathsWellFormed ==
    \A p \in PathsInPlay :
        /\ p # <<>>
        /\ p[1] = RouteSegment(env.START_TD, env.START_TD, STARTING_ROUTE_NAME,
                               env.START_STOP)
        /\ \A i \in 1..(Len(p) - 1) : p[i + 1].departure_td >= p[i].arrival_td

\* a finalized Path of three segments or more that waits before a departure
C6_Witness ==
    \E s \in DOMAIN Finalized :
        /\ Len(Finalized[s]) >= 3
        /\ \E i \in 1..(Len(Finalized[s]) - 1) :
              Finalized[s][i + 1].departure_td > Finalized[s][i].arrival_td

\* position k of the Path is a ride on the trip: the Path up to k was built
\* by the fan-out of that trip
RidesAt(path, k, trip_id) ==
    /\ k \in 2..Len(path)
    /\ [rc |-> SubSeq(path, 1, k), via |-> trip_id] \in generated

Rides(path, trip_id) == \E k \in 2..Len(path) : RidesAt(path, k, trip_id)

TripIds(e) == {e.trips[i].trip_id : i \in DOMAIN e.trips}

\* C7 (as claimed): a trip id is a boarding edge in at most one Path of
\* Finalized.
C7_TripInOnePath ==
    \A t \in TripIds(env) :
        Cardinality({s \in DOMAIN Finalized : Rides(Finalized[s], t)}) <= 1

\* C7 (amended): a trip id is boarded at one point only: all the rides on it
\* in the Paths of Finalized continue the same Path and leave at the same
\* departure offset (the fan-out puts the ride in one Path per later stop).
C7_TripBoardedOnce ==
    \A t \in TripIds(env) : \A s1, s2 \in DOMAIN Finalized :
        \A k1 \in 2..Len(Finalized[s1]) : \A k2 \in 2..Len(Finalized[s2]) :
            (RidesAt(Finalized[s1], k1, t) /\ RidesAt(Finalized[s2], k2, t))
                => /\ SubSeq(Finalized[s1], 1, k1 - 1) = SubSeq(Finalized[s2], 1, k2 - 1)
                   /\ Finalized[s1][k1].departure_td = Finalized[s2][k2].departure_td

\* one trip is ridden in the Paths of two finalized stops, and a second
\* finalized stop is visited by a trip that was already boarded elsewhere
C7_Witness ==
    /\ \E t \in TripIds(env) : \E s1, s2 \in DOMAIN Finalized :
          s1 # s2 /\ Rides(Finalized[s1], t) /\ Rides(Finalized[s2], t)
    /\ \E t \in visited_trips : \E s \in DOMAIN Finalized :
          /\ ~Rides(Finalized[s], t)
          /\ Len(Finalized[s]) >= 2
          /\ \E i \in DOMAIN TripById(env, t).stop_times :
                /\ TripById(env, t).stop_times[i].stop_id = s
                /\ TripById(env, t).stop_times[i].departure_time >= ArrivalOf(Finalized[s])
                /\ i < Len(TripById(env, t).stop_times)

\* the same feed with the rows of trips.txt in the opposite order: successors
\* with equal keys are pushed, and so popped, in the opposite order
ReverseRows(e) ==
    [e EXCEPT !.trips = [i \in 1..Len(e.trips) |-> e.trips[Len(e.trips) + 1 - i]]]

DistinctRoutes(e) ==
    \A i, j \in DOMAIN e.trips : i # j => e.trips[i].route_id # e.trips[j].route_id

\* C8: the Finalized mapping of a finished search does not depend on the
\* order in which Paths of equal key (arrival offset, segment count) are
\* popped: with one trip per route, listing the trips in the opposite order,
\* which only swaps the order of equal-key pushes, gives the same mapping.
C8_TieOrderIrrelevant ==
    (pc = "done" /\ DistinctRoutes(env)) =>
        LET other == RunLoop(ReverseRows(env), InitialState(ReverseRows(env)))
        IN  other.pc = "done" /\ other.visited_stops = Finalized

\* C9: the loop goes on until the frontier is empty: in every state either
\* the loop is still running (a step of Next is enabled exactly when
\* pc = "loop") or the frontier is empty.
C9_Terminates == pc = "loop" \/ queue = <<>>

\* the successors the fan-out of a trip must build when the trip is boarded
\* from `path` at visit b: one per later visit that arrives within the horizon
FanOutOf(e, path, trip, b) ==
    {append(path, b.departure_time, v.arrival_time, trip.trip_headsign, v.stop_id) :
        v \in {v \in Range(trip.stop_times) :
                  /\ v.stop_sequence > b.stop_sequence
                  /\ v.arrival_time <= end_timedelta(e)}}

\* C10: the successors generated for a boarded trip are exactly one per stop
\* it visits after the boarding stop with arrival within the horizon; and
\* the search of scenario 1 ends with Finalized = {A: 0, B: 10}.
C10_FanOutAndScenario1 ==
    /\ \A t \in visited_trips :
          \E s \in DOMAIN Finalized : \E b \in Range(TripById(env, t).stop_times) :
              /\ b.stop_id = s
              /\ b.departure_time >= ArrivalOf(Finalized[s])
              /\ {g.rc : g \in {g \in generated : g.via = t}}
                     = FanOutOf(env, Finalized[s], TripById(env, t), b)
    /\ (env = Scenario1 /\ pc = "done") =>
          /\ DOMAIN Finalized = {"A", "B"}
          /\ ArrivalOf(Finalized["A"]) = 0
          /\ ArrivalOf(Finalized["B"]) = 10

\* scenario 1 has ended: its trip was boarded at A and C lay beyond the horizon
C10_Witness ==
    /\ env = Scenario1
    /\ pc = "done"
    /\ visited_trips = {1}

\* the two successors of scenario 3
FastPath == append(starting_collection(0, "A"), 0, 5, <<"Red", "Line">>, "B")

SlowPath == append(starting_collection(0, "A"), 0, 8, <<"Blue", "Line">>, "B")

Scenario3s == {Scenario3FastFirst, Scenario3SlowFirst}

\* C11 as the spec states it: in scenario 3, whichever route is expanded
\* first, the path arriving at 5 is finalized for B and the path arriving at
\* 8 is popped from the frontier and discarded there, never finalized.
C11_SlowPathPoppedAndDiscarded ==
    (env \in Scenario3s /\ pc = "done") =>
        /\ "B" \in DOMAIN Finalized
        /\ Finalized["B"] = FastPath
        /\ SlowPath \in Range(popped)
        /\ SlowPath \notin Range(Finalized)

\* C11 (amended): in scenario 3, whichever route is expanded first, the path
\* arriving at 5 is finalized for B and the path arriving at 8 is never
\* finalized; the slower path is generated in both orders, but it enters the
\* frontier (and is popped and discarded as stale) only when the slower
\* route is expanded first: when the faster route is expanded first the push
\* rule already rejects it.
C11_SlowPathNeverFinalized ==
    /\ env \in Scenario3s => SlowPath \notin Range(Finalized)
    /\ (env \in Scenario3s /\ pc = "done") =>
          /\ "B" \in DOMAIN Finalized
          /\ Finalized["B"] = FastPath
          /\ \E i \in DOMAIN pushlog :
                /\ pushlog[i].rc = SlowPath
                /\ pushlog[i].inserted <=> env = Scenario3SlowFirst
          /\ SlowPath \in Range(popped) <=> env = Scenario3SlowFirst

\* scenario 3 has ended with the faster route expanded first: the slower
\* path was handed to push_to_queue and never popped
C11_Witness ==
    /\ env = Scenario3FastFirst
    /\ pc = "done"
    /\ \E i \in DOMAIN pushlog : pushlog[i].rc = SlowPath
    /\ SlowPath \notin Range(popped)

\* the successors generated by walking (via = 0) that extend `path` by one
\* segment
WalkSuccessors(path) ==
    {g.rc : g \in {g \in generated :
                      /\ g.via = 0
                      /\ Len(g.rc) = Len(path) + 1
                      /\ SubSeq(g.rc, 1, Len(path)) = path}}

\* the successors the walking expansion of `path` must build: one per stop
\* at straight-line distance d within speed * (horizon - t), leaving at t,
\* arriving at t + d / speed, labelled as a walk of d meters
WalksOf(e, path) ==
    {append(path, ArrivalOf(path),
            ArrivalOf(path) + distance(e, StopOf(path), s) \div e.WALKING_SPEED,
            <<"Walk", ToString(distance(e, StopOf(path), s)), "meters">>, s) :
        s \in {s \in StopIds(e) :
                  distance(e, StopOf(path), s)
                      <= e.WALKING_SPEED * (end_timedelta(e) - ArrivalOf(path))}}

\* C12: the walking expansion of a finalized stop (one that has a timetable,
\* is not reached by a walk, with a positive walking speed) generates exactly
\* the walks within reach; and the search of scenario 2 ends with D
\* finalized at 50 by a single walking segment of 50 meters.
C12_WalkingAndScenario2 ==
    /\ \A s \in DOMAIN Finalized :
          (HasStopGroup(env, s) /\ ~WalkingSkipped(env, Finalized[s])) =>
              WalkSuccessors(Finalized[s]) = WalksOf(env, Finalized[s])
    /\ (env = Scenario2 /\ pc # "loop") =>
          /\ pc # "crashed"
          /\ "D" \in DOMAIN Finalized
          /\ Finalized["D"] = append(starting_collection(0, "A"), 0, 50,
                                     <<"Walk", "50", "meters">>, "D")

IsWaiting(segment) == segment.route_name = WAIT_ROUTE_NAME

WithoutWaiting(path) == SelectSeq(path, LAMBDA segment : ~IsWaiting(segment))

\* C13: every popup drawn is populate_waiting of the finalized path: it is
\* gap-free, every waiting segment spans exactly the gap between its
\* neighbours at the arrival stop of the segment before it, taking the
\* waiting segments out gives back the finalized path, and populate_waiting
\* of the popup is the popup.
C13_PopulateWaiting ==
    \A s \in DOMAIN popups :
        LET filled == popups[s]
        IN  /\ \A i \in 1..(Len(filled) - 1) :
                  filled[i].arrival_td = filled[i + 1].departure_td
            /\ \A i \in DOMAIN filled :
                  IsWaiting(filled[i]) =>
                      /\ 1 < i /\ i < Len(filled)
                      /\ filled[i].departure_td = filled[i - 1].arrival_td
                      /\ filled[i].arrival_td = filled[i + 1].departure_td
                      /\ filled[i].departure_td # filled[i].arrival_td
                      /\ filled[i].arrival_stop_id = filled[i - 1].arrival_stop_id
            /\ WithoutWaiting(filled) = Finalized[s]
            /\ Last(filled) = Last(Finalized[s])
            /\ populate_waiting(filled) = filled

\* a popup was drawn in which a wait was filled in at a stop that is not the
\* stop the path ends at
C13_Witness ==
    /\ pc = "drawn"
    /\ \E s \in DOMAIN popups : \E i \in DOMAIN popups[s] :
          /\ IsWaiting(popups[s][i])
          /\ popups[s][i].arrival_stop_id # s

\* a logged call of push_to_queue left the frontier and added_stops alone
Discarded(call) == ~call.inserted /\ call.added_after = call.added_before

\* a logged call of push_to_queue recorded the arrival and grew the frontier
Inserted(call) ==
    /\ call.inserted
    /\ call.added_after = DictSet(call.added_before, StopOf(call.rc), ArrivalOf(call.rc))

\* C14 as the spec states it: a successor is discarded whenever added_stops
\* holds a value less than or equal to its arrival for its stop, and is
\* recorded and inserted otherwise.
C14_DiscardedWhenNotBetter ==
    \A i \in DOMAIN pushlog :
        LET call == pushlog[i]
        IN  IF /\ StopOf(call.rc) \in DOMAIN call.added_before
               /\ call.added_before[StopOf(call.rc)] <= ArrivalOf(call.rc)
            THEN Discarded(call)
            ELSE Inserted(call)

\* C14 (amended): a successor is discarded exactly when added_stops holds a
\* strictly smaller value than its arrival for its stop; otherwise (no
\* entry, a larger entry, or an equal one) its arrival is recorded and it is
\* inserted into the frontier.
C14_DiscardedWhenStrictlyWorse ==
    \A i \in DOMAIN pushlog :
        LET call == pushlog[i]
        IN  IF /\ StopOf(call.rc) \in DOMAIN call.added_before
               /\ call.added_before[StopOf(call.rc)] < ArrivalOf(call.rc)
            THEN Discarded(call)
            ELSE Inserted(call)

\* a successor arriving exactly at the recorded time was inserted, and
\* another one arriving later than the recorded time was discarded
C14_Witness ==
    /\ \E i \in DOMAIN pushlog :
          /\ StopOf(pushlog[i].rc) \in DOMAIN pushlog[i].added_before
          /\ pushlog[i].added_before[StopOf(pushlog[i].rc)] = ArrivalOf(pushlog[i].rc)
          /\ pushlog[i].inserted
    /\ \E i \in DOMAIN pushlog :
          /\ StopOf(pushlog[i].rc) \in DOMAIN pushlog[i].added_before
          /\ pushlog[i].added_before[StopOf(pushlog[i].rc)] < ArrivalOf(pushlog[i].rc)
          /\ ~pushlog[i].inserted

\* every collection that was ever in the frontier: the start collection the
\* queue is built with, and every collection push_to_queue inserted
EverInFrontier ==
    {starting_collection(env.START_TD, env.START_STOP)}
        \cup {pushlog[i].rc : i \in {i \in DOMAIN pushlog : pushlog[i].inserted}}

\* C15: every entry of added_stops is the minimum arrival over all
\* collections for that stop that were ever in the frontier, the start
\* collection included, and no call of push_to_queue increases an entry.
C15_BestKnownIsMinimum ==
    /\ \A s \in DOMAIN added_stops :
          added_stops[s] = Min({ArrivalOf(p) : p \in {p \in EverInFrontier : StopOf(p) = s}})
    /\ \A i \in DOMAIN pushlog : \A s \in DOMAIN pushlog[i].added_before :
          pushlog[i].added_after[s] <= pushlog[i].added_before[s]

\* the successors built for stop s during the run, whether or not the push
\* rule let them in, with arrival within the horizon
GeneratedFor(s) ==
    {g.rc : g \in {g \in generated :
                      StopOf(g.rc) = s /\ ArrivalOf(g.rc) <= end_timedelta(env)}}

\* C16 as the spec states it: when the search has ended, every stop for
\* which a successor within the horizon was generated is finalized, with the
\* minimum arrival over all those successors.
C16_FinalizedIsMinGenerated ==
    pc = "done" =>
        \A s \in StopIds(env) :
            GeneratedFor(s) # {} =>
                /\ s \in DOMAIN Finalized
                /\ ArrivalOf(Finalized[s]) = Min({ArrivalOf(p) : p \in GeneratedFor(s)})

\* the start collection, when it is not beyond the horizon
StartWithinHorizon ==
    IF env.START_TD <= end_timedelta(env)
    THEN {starting_collection(env.START_TD, env.START_STOP)}
    ELSE {}

\* C16 (amended): when the search has ended, the finalized stops are those
\* for which the start collection or a generated successor arrives within
\* the horizon, each with the minimum arrival over the start collection and
\* all those successors.
C16_FinalizedIsMinOfStartAndGenerated ==
    pc = "done" =>
        \A s \in StopIds(env) :
            LET paths == GeneratedFor(s) \cup {p \in StartWithinHorizon : StopOf(p) = s}
            IN  /\ s \in DOMAIN Finalized <=> paths # {}
                /\ paths # {} =>
                       ArrivalOf(Finalized[s]) = Min({ArrivalOf(p) : p \in paths})

\* the search has ended and a finalized stop had both a successor rejected
\* by the push rule and a stale one discarded when popped
C16_Witness ==
    /\ pc = "done"
    /\ \E s \in DOMAIN Finalized :
          /\ \E i \in DOMAIN pushlog :
                StopOf(pushlog[i].rc) = s /\ ~pushlog[i].inserted
          /\ \E i \in DOMAIN popped :
                StopOf(popped[i]) = s /\ popped[i] # Finalized[s]

\* the comparison key of a is less than or equal to that of b
KeyLeq(a, b) ==
    \/ get_cmp_key(a)[1] < get_cmp_key(b)[1]
    \/ get_cmp_key(a)[1] = get_cmp_key(b)[1] /\ get_cmp_key(a)[2] <= get_cmp_key(b)[2]

\* C17: the collection the next pop returns has a key (last arrival, number
\* of segments) less than or equal to that of every collection the pop
\* leaves in the frontier, and the arrivals of the collections popped so far
\* are in non-decreasing order.
C17_PopsInKeyOrder ==
    /\ queue # <<>> =>
          \A q \in Range(heappop_rest(queue)) : KeyLeq(heappop_item(queue), q)
    /\ \A i, j \in DOMAIN popped :
          i < j => ArrivalOf(popped[i]) <= ArrivalOf(popped[j])

\* three collections with different arrivals were popped while the frontier
\* still holds three or more
C17_Witness ==
    /\ Len(queue) >= 3
    /\ \E i, j, k \in DOMAIN popped :
          /\ ArrivalOf(popped[i]) < ArrivalOf(popped[j])
          /\ ArrivalOf(popped[j]) < ArrivalOf(popped[k])

\* the rows of the feed that are a scheduled visit of stop s departing at t
\* or later and arriving within the horizon
Qualifying(e, s, t) ==
    {r \in Range(StopGroup(e, s)) :
        r.departure_time >= t /\ r.arrival_time <= end_timedelta(e)}

\* C18: the candidates of the transit expansion of a finalized stop (one
\* that has a timetable) are one row per route that has a qualifying visit
\* of the stop, each with the earliest departure among the qualifying
\* visits of its route; every candidate of an allowed mode has its trip
\* boarded by then, and every ride generated from the stop is on a
\* candidate's trip.
C18_OneCandidatePerRoute ==
    \A s \in DOMAIN Finalized :
        HasStopGroup(env, s) =>
            LET t == ArrivalOf(Finalized[s])
                candidates == first_available_routes(env, s, t)
                Q == Qualifying(env, s, t)
            IN  /\ {candidates[i].route_id : i \in DOMAIN candidates}
                       = {r.route_id : r \in Q}
                /\ \A i, j \in DOMAIN candidates :
                      candidates[i].route_id = candidates[j].route_id => i = j
                /\ \A i \in DOMAIN candidates :
                      /\ candidates[i] \in Q
                      /\ candidates[i].departure_time
                             = Min({r.departure_time :
                                       r \in {r \in Q : r.route_id = candidates[i].route_id}})
                      /\ trip_route_types(env, candidates[i].trip_id)
                             \in env.ALLOWED_TRAVEL_MODES
                         => candidates[i].trip_id \in visited_trips
                /\ \A g \in generated :
                      (/\ g.via # 0
                       /\ Len(g.rc) = Len(Finalized[s]) + 1
                       /\ SubSeq(g.rc, 1, Len(Finalized[s])) = Finalized[s])
                      => \E i \in DOMAIN candidates : candidates[i].trip_id = g.via

\* a stop was finalized at which one route has two qualifying visits with
\* different departures, and the trip of the earlier one was boarded
C18_Witness ==
    \E s \in DOMAIN Finalized :
        LET Q == Qualifying(env, s, ArrivalOf(Finalized[s]))
        IN  \E r1, r2 \in Q :
                /\ r1.route_id = r2.route_id
                /\ r1.departure_time < r2.departure_time
                /\ r1.trip_id \in visited_trips

\* the collection a generated successor extends
PrefixOf(path) == SubSeq(path, 1, Len(path) - 1)

\* the points at which trip t was expanded: the collection that boarded it
\* and the departure it left at
BoardingsOf(t) ==
    {<<PrefixOf(g.rc), Last(g.rc).departure_td>> : g \in {g \in generated : g.via = t}}

\* C19: visited_trips never loses a trip; every trip was expanded at one
\* point at most, by a collection finalized for a stop the trip visits;
\* every trip ridden by a generated successor is in visited_trips; and no
\* trip of a mode outside ALLOWED_TRAVEL_MODES is in visited_trips or ridden
\* by any successor.
C19_BoardedTrips ==
    /\ [][visited_trips \subseteq visited_trips']_vars
    /\ [](/\ \A t \in TripIds(env) :
                /\ Cardinality(BoardingsOf(t)) <= 1
                /\ \A b \in BoardingsOf(t) :
                      /\ StopOf(b[1]) \in DOMAIN Finalized
                      /\ Finalized[StopOf(b[1])] = b[1]
          /\ \A g \in generated : g.via # 0 => g.via \in visited_trips
          /\ \A t \in visited_trips :
                trip_route_types(env, t) \in env.ALLOWED_TRAVEL_MODES)

\* a boarded trip was the candidate again at a stop finalized later, and a
\* trip of a mode that is not allowed was a candidate too
C19_Witness ==
    /\ \E s \in DOMAIN Finalized : \E t \in visited_trips :
          /\ HasStopGroup(env, s)
          /\ \E i \in DOMAIN first_available_routes(env, s, ArrivalOf(Finalized[s])) :
                first_available_routes(env, s, ArrivalOf(Finalized[s]))[i].trip_id = t
          /\ BoardingsOf(t) # {}
          /\ \A b \in BoardingsOf(t) : StopOf(b[1]) # s
    /\ \E s \in DOMAIN Finalized :
          /\ HasStopGroup(env, s)
          /\ \E i \in DOMAIN first_available_routes(env, s, ArrivalOf(Finalized[s])) :
                trip_route_types(env,
                    first_available_routes(env, s, ArrivalOf(Finalized[s]))[i].trip_id)
                        \notin env.ALLOWED_TRAVEL_MODES

\* the last segment of a collection was built by the walking expansion
LastIsWalk(path) == [rc |-> path, via |-> 0] \in generated

\* C20: the walking expansion of a finalized collection (at a stop that has
\* a timetable) is performed exactly when its last segment is not a walking
\* segment and the walking speed is positive; no generated collection has
\* two walking segments in a row, none has a walking segment when the speed
\* is not positive; and a collection that ends with a walk still boards the
\* candidates of its stop.
C20_WalkingExpansion ==
    /\ \A s \in DOMAIN Finalized :
          HasStopGroup(env, s) =>
              /\ WalkSuccessors(Finalized[s]) # {}
                     <=> (~LastIsWalk(Finalized[s]) /\ env.WALKING_SPEED > 0)
              /\ \A i \in DOMAIN first_available_routes(env, s, ArrivalOf(Finalized[s])) :
                    LET row == first_available_routes(env, s, ArrivalOf(Finalized[s]))[i]
                    IN  trip_route_types(env, row.trip_id) \in env.ALLOWED_TRAVEL_MODES
                            => row.trip_id \in visited_trips
    /\ \A g \in generated :
          /\ g.via = 0 => ~LastIsWalk(PrefixOf(g.rc))
          /\ g.via = 0 => env.WALKING_SPEED > 0

=============================================================================
